---------------------------- MODULE Spec2Model ----------------------------
(***************************************************************************)
(* A model of the logrus formatter of package gcfstructuredlogformatter:   *)
(* Formatter.Format turns one logrus entry into one line of JSON in the    *)
(* Google structured-logging schema.                                       *)
(*                                                                         *)
(* Go values are modelled with the distinctions Go makes:                  *)
(*   - a map is [nil, kv]: a nil map and an empty map are different        *)
(*     values that both have length 0;                                     *)
(*   - a value of logrus.Fields (interface{}) is [type, v]: its dynamic    *)
(*     type and its text, so that int 1 and float64 1 differ;              *)
(*   - a JSON text is its abstract syntax: the set of keys present in the  *)
(*     top-level object and the value of each.                             *)
(***************************************************************************)
EXTENDS Integers, Sequences, FiniteSets, TLC

-----------------------------------------------------------------------------
(* Bounds of the model. *)

\* Levels 0..6 are logrus's seven levels; levels 7..MaxLevel are outside them.
MaxLevel == 8
\* The number of Format calls whose outputs the caller keeps.
MaxCalls == 2
\* The number of goroutines calling Format concurrently.
NumProcs == 2

-----------------------------------------------------------------------------
(* Go maps. *)

NilMap == [nil |-> TRUE, kv |-> <<>>]
EmptyMap == [nil |-> FALSE, kv |-> <<>>]
MakeMap(f) == [nil |-> FALSE, kv |-> f]
MapLen(m) == Cardinality(DOMAIN m.kv)
MapKeys(m) == DOMAIN m.kv
MapHas(m, k) == k \in DOMAIN m.kv
\* m[k] = v on a map that is not nil.
MapSet(m, k, v) ==
    [nil |-> FALSE,
     kv |-> [x \in (DOMAIN m.kv) \cup {k} |-> IF x = k THEN v ELSE m.kv[x]]]
\* delete(m, k)
MapDelete(m, k) ==
    [nil |-> m.nil, kv |-> [x \in (DOMAIN m.kv) \ {k} |-> m.kv[x]]]

(* Values of type interface{} held by logrus.Fields. *)
GoString(s) == [type |-> "string", v |-> s]
GoInt(s) == [type |-> "int", v |-> s]
GoFloat64(s) == [type |-> "float64", v |-> s]
GoChan == [type |-> "chan", v |-> ""]

-----------------------------------------------------------------------------
(* logrus.Level and logging.Severity. *)

PanicLevel == 0
FatalLevel == 1
ErrorLevel == 2
WarnLevel == 3
InfoLevel == 4
DebugLevel == 5
TraceLevel == 6

SevDefault == 0
SevDebug == 100
SevInfo == 200
SevWarning == 400
SevError == 500
SevAlert == 700
SevEmergency == 800

Levels == <<PanicLevel, FatalLevel, ErrorLevel, WarnLevel, InfoLevel,
            DebugLevel, TraceLevel>>

LevelSet == {Levels[i] : i \in DOMAIN Levels}

logrusToGoogleSeverityMap ==
    [l \in LevelSet |->
        CASE l = PanicLevel -> SevEmergency
          [] l = FatalLevel -> SevAlert
          [] l = ErrorLevel -> SevError
          [] l = WarnLevel -> SevWarning
          [] l = InfoLevel -> SevInfo
          [] l = DebugLevel -> SevDebug
          [] l = TraceLevel -> SevDefault]

\* A plausible slip: the fallback of an unmapped level is the map's zero-th
\* entry instead of logging.Default.
MapSeverityZeroFallback(level) ==
    IF level \in DOMAIN logrusToGoogleSeverityMap
    THEN logrusToGoogleSeverityMap[level]
    ELSE logrusToGoogleSeverityMap[PanicLevel]

\* severity := logging.Default; if value, okay := map[entry.Level]; okay {...}
MapSeverity(level) ==
    IF level \in DOMAIN logrusToGoogleSeverityMap
    THEN logrusToGoogleSeverityMap[level]
    ELSE SevDefault

\* logging.Severity.String() on the severities the map can yield.
SeverityString(s) ==
    CASE s = SevDefault -> "Default"
      [] s = SevDebug -> "Debug"
      [] s = SevInfo -> "Info"
      [] s = SevWarning -> "Warning"
      [] s = SevError -> "Error"
      [] s = SevAlert -> "Alert"
      [] s = SevEmergency -> "Emergency"

-----------------------------------------------------------------------------
(* Text conversions. *)

DecDigits == <<"0", "1", "2", "3", "4", "5", "6", "7", "8", "9">>
HexDigits == <<"0", "1", "2", "3", "4", "5", "6", "7", "8", "9",
               "a", "b", "c", "d", "e", "f">>

\* %d of a non-negative int.
RECURSIVE Itoa(_)
Itoa(n) ==
    IF n < 10 THEN DecDigits[n + 1]
    ELSE Itoa(n \div 10) \o DecDigits[(n % 10) + 1]

HexByte(b) == HexDigits[(b \div 16) + 1] \o HexDigits[(b % 16) + 1]

\* hex.EncodeToString of a byte array.
RECURSIVE EncodeToString(_)
EncodeToString(bytes) ==
    IF bytes = <<>> THEN ""
    ELSE HexByte(Head(bytes)) \o EncodeToString(Tail(bytes))

\* fmt.Sprintf("%s\n\t%s:%d\n", Function, File, Line)
ExceptionText(caller) ==
    caller.Function \o "\n\t" \o caller.File \o ":" \o Itoa(caller.Line) \o "\n"

-----------------------------------------------------------------------------
(* Trace context. *)

TraceIDLen == 16
SpanIDLen == 8

ZeroID(n) == [i \in 1..n |-> 0]
LastByteID(n, b) == [i \in 1..n |-> IF i = n THEN b ELSE 0]
FirstByteID(n, b) == [i \in 1..n |-> IF i = 1 THEN b ELSE 0]

\* TraceID.IsValid, SpanID.IsValid: the id is not all zero.
IDIsValid(id) == \E i \in DOMAIN id : id[i] # 0

\* A plausible slip: only the trace id is checked.
SpanContextIsValidTraceOnly(sc) == IDIsValid(sc.TraceID)

\* SpanContext.IsValid
SpanContextIsValid(sc) == IDIsValid(sc.TraceID) /\ IDIsValid(sc.SpanID)

EmptySpanContext == [TraceID |-> ZeroID(TraceIDLen), SpanID |-> ZeroID(SpanIDLen)]

\* entry.Context: nil, a context with no span in it, or a context with a span.
NilContext == [nil |-> TRUE, hasSpan |-> FALSE, sc |-> EmptySpanContext]
ContextNoSpan == [nil |-> FALSE, hasSpan |-> FALSE, sc |-> EmptySpanContext]
ContextWithSpan(sc) == [nil |-> FALSE, hasSpan |-> TRUE, sc |-> sc]

\* trace.SpanFromContext(ctx).SpanContext(): a context without a span yields
\* the no-op span, whose span context is the zero value.
SpanContextOf(ctx) == IF ctx.hasSpan THEN ctx.sc ELSE EmptySpanContext

\* Lines 81-89: the Trace and SpanID of the new entry.
SpanFields(ctx) ==
    IF ~ctx.nil /\ SpanContextIsValid(SpanContextOf(ctx))
    THEN [Trace |-> EncodeToString(SpanContextOf(ctx).TraceID),
          SpanID |-> EncodeToString(SpanContextOf(ctx).SpanID)]
    ELSE [Trace |-> "", SpanID |-> ""]

-----------------------------------------------------------------------------
(* logEntry and encoding/json. *)

KeySeverity == "severity"
KeyTrace == "logging.googleapis.com/trace"
KeySpanID == "logging.googleapis.com/spanId"
KeyLabels == "labels"
KeyJSONPayload == "jsonPayload"

\* The zero value logEntry{}.
ZeroLogEntry ==
    [Severity |-> "", Trace |-> "", SpanID |-> "",
     Labels |-> NilMap, JSONPayload |-> NilMap]

\* json.Marshal fails on a value of a type JSON has no form for.
Unsupported(payload) == \E k \in MapKeys(payload) : payload.kv[k].type = "chan"

UnsupportedTypeError == [nil |-> FALSE, kind |-> "json.UnsupportedTypeError"]
NilError == [nil |-> TRUE, kind |-> ""]

\* The JSON form of one value of logrus.Fields: the dynamic type is lost,
\* an int and a float64 are both a JSON number.
EncodeValue(val) ==
    IF val.type = "string" THEN [kind |-> "string", text |-> val.v]
    ELSE [kind |-> "number", text |-> val.v]

\* Decoding into interface{}: a JSON string is a string, a number a float64.
DecodeValue(j) ==
    IF j.kind = "string" THEN GoString(j.text) ELSE GoFloat64(j.text)

\* A plausible slip: `labels` without omitempty, so that the key is always written.
PresentKeysLabelsAlways(e) ==
    {KeyJSONPayload, KeyLabels}
        \cup (IF e.Severity # "" THEN {KeySeverity} ELSE {})
        \cup (IF e.Trace # "" THEN {KeyTrace} ELSE {})
        \cup (IF e.SpanID # "" THEN {KeySpanID} ELSE {})

\* The keys json.Marshal writes for a logEntry: omitempty drops an empty string
\* and a map of length 0 (nil or not); jsonPayload has no omitempty.
PresentKeys(e) ==
    {KeyJSONPayload}
        \cup (IF e.Severity # "" THEN {KeySeverity} ELSE {})
        \cup (IF e.Trace # "" THEN {KeyTrace} ELSE {})
        \cup (IF e.SpanID # "" THEN {KeySpanID} ELSE {})
        \cup (IF MapLen(e.Labels) # 0 THEN {KeyLabels} ELSE {})

\* json.Marshal(logEntry) when it succeeds: the JSON object written. A nil
\* JSONPayload is written as null, any other as an object.
MarshalDoc(e) ==
    [keys |-> PresentKeys(e),
     severity |-> e.Severity,
     trace |-> e.Trace,
     spanId |-> e.SpanID,
     labels |-> IF KeyLabels \in PresentKeys(e) THEN e.Labels.kv ELSE <<>>,
     jsonPayload |->
        [null |-> e.JSONPayload.nil,
         obj |-> [k \in MapKeys(e.JSONPayload) |-> EncodeValue(e.JSONPayload.kv[k])]]]

\* A plausible slip: decoding leaves the labels out.
UnmarshalNoLabels(doc) ==
    [Severity |-> IF KeySeverity \in doc.keys THEN doc.severity ELSE "",
     Trace |-> IF KeyTrace \in doc.keys THEN doc.trace ELSE "",
     SpanID |-> IF KeySpanID \in doc.keys THEN doc.spanId ELSE "",
     Labels |-> NilMap,
     JSONPayload |->
        IF KeyJSONPayload \notin doc.keys \/ doc.jsonPayload.null THEN NilMap
        ELSE MakeMap([k \in DOMAIN doc.jsonPayload.obj |->
                        DecodeValue(doc.jsonPayload.obj[k])])]

\* json.Unmarshal(contents, &testEntry) with testEntry the zero logEntry: a key
\* that is absent, and a null, leave the field at its zero value; an object
\* allocates a map.
Unmarshal(doc) ==
    [Severity |-> IF KeySeverity \in doc.keys THEN doc.severity ELSE "",
     Trace |-> IF KeyTrace \in doc.keys THEN doc.trace ELSE "",
     SpanID |-> IF KeySpanID \in doc.keys THEN doc.spanId ELSE "",
     Labels |-> IF KeyLabels \in doc.keys THEN MakeMap(doc.labels) ELSE NilMap,
     JSONPayload |->
        IF KeyJSONPayload \notin doc.keys \/ doc.jsonPayload.null THEN NilMap
        ELSE MakeMap([k \in DOMAIN doc.jsonPayload.obj |->
                        DecodeValue(doc.jsonPayload.obj[k])])]

\* An error value.
IsNilError(err) == err.nil

\* A []byte: nil, or the JSON text json.Marshal returned followed by what
\* was appended to it.
NilBytes == [nil |-> TRUE, json |-> MarshalDoc(ZeroLogEntry), tail |-> <<>>]
Contents(doc) == [nil |-> FALSE, json |-> doc, tail |-> <<>>]
\* append(b, []byte(s)...)
AppendBytes(b, s) == [b EXCEPT !.tail = Append(@, s)]

\* json.Marshal(logEntry): the contents and the error.
Marshal(e) ==
    IF Unsupported(e.JSONPayload)
    THEN [contents |-> NilBytes, err |-> UnsupportedTypeError]
    ELSE [contents |-> Contents(MarshalDoc(e)), err |-> NilError]

-----------------------------------------------------------------------------
(* Formatter.Format *)

\* A plausible slip: the labels are left out of the new entry.
CopyLabelsNone(fLabels) == EmptyMap

\* Lines 79 and 90-92: a fresh map, then every label of the formatter put in
\* it. Ranging over a nil map runs no iteration.
CopyLabels(fLabels) == MakeMap(fLabels.kv)

\* A plausible slip: the message is set only where the fields have none.
WithMessageKeepExisting(data, message) ==
    IF MapHas(data, "message") THEN data
    ELSE MapSet(data, "message", GoString(message))

\* Line 95, on a map that is not nil.
WithMessage(data, message) == MapSet(data, "message", GoString(message))

\* A plausible slip: the severity is not looked at.
WithExceptionAnySeverity(data, severity, caller) ==
    IF ~caller.nil
    THEN MapSet(data, "exception", GoString(ExceptionText(caller)))
    ELSE data

\* Lines 97-99.
WithException(data, severity, caller) ==
    IF severity = SevError /\ ~caller.nil
    THEN MapSet(data, "exception", GoString(ExceptionText(caller)))
    ELSE data

\* Lines 77-89: the new entry before the payload is attached.
NewEntry(fLabels, e) ==
    [Severity |-> SeverityString(MapSeverity(e.Level)),
     Trace |-> SpanFields(e.Context).Trace,
     SpanID |-> SpanFields(e.Context).SpanID,
     Labels |-> CopyLabels(fLabels),
     JSONPayload |-> NilMap]

\* The whole call. `data` is the map entry.Data refers to as the call leaves
\* it: newEntry.JSONPayload is that same map, so lines 95 and 98 write into
\* it. Writing into a nil map panics (line 95).
Format(fLabels, e) ==
    IF e.Data.nil
    THEN [outcome |-> "panic", bytes |-> NilBytes, err |-> NilError,
          data |-> e.Data]
    ELSE LET payload == WithException(WithMessage(e.Data, e.Message),
                                      MapSeverity(e.Level), e.Caller)
             newEntry == [NewEntry(fLabels, e) EXCEPT !.JSONPayload = payload]
             m == Marshal(newEntry)
         IN  IF ~IsNilError(m.err)
             THEN [outcome |-> "error", bytes |-> NilBytes, err |-> m.err,
                   data |-> payload]
             ELSE [outcome |-> "ok", bytes |-> AppendBytes(m.contents, "\n"),
                   err |-> NilError, data |-> payload]

-----------------------------------------------------------------------------
(* Inputs. *)

Messages == {"", "test"}

Frame(fn, file, line) == [nil |-> FALSE, Function |-> fn, File |-> file, Line |-> line]
NilCaller == [nil |-> TRUE, Function |-> "", File |-> "", Line |-> 0]
Callers == {NilCaller, Frame("main.foo", "main.go", 42)}

TraceA == LastByteID(TraceIDLen, 1)
SpanA == FirstByteID(SpanIDLen, 171)

Contexts ==
    {NilContext, ContextNoSpan,
     ContextWithSpan([TraceID |-> TraceA, SpanID |-> SpanA]),
     ContextWithSpan([TraceID |-> TraceA, SpanID |-> ZeroID(SpanIDLen)]),
     ContextWithSpan([TraceID |-> ZeroID(TraceIDLen), SpanID |-> SpanA])}

DataMaps ==
    {NilMap, EmptyMap,
     MakeMap([k \in {"prop"} |-> GoString("value")]),
     MakeMap([k \in {"message", "n"} |->
                IF k = "n" THEN GoInt("1") ELSE GoString("old")]),
     MakeMap([k \in {"exception", "prop"} |->
                IF k = "prop" THEN GoString("value") ELSE GoString("boom")]),
     MakeMap([k \in {"ch"} |-> GoChan])}

\* The entries passed to Format: every level, message, field map and caller
\* without a context, and every context at a mapped level that is Error, one
\* that is not, and an unmapped one.
Events ==
    [Level : 0..MaxLevel, Message : Messages, Data : DataMaps,
     Context : {NilContext}, Caller : Callers]
    \cup
    [Level : {ErrorLevel, InfoLevel, MaxLevel}, Message : {"test"},
     Data : {EmptyMap, MakeMap([k \in {"prop"} |-> GoString("value")])},
     Context : Contexts, Caller : Callers]

\* The label maps a caller assigns to Formatter.Labels.
LabelMaps ==
    {NilMap, EmptyMap,
     MakeMap([k \in {"env"} |-> "prod"]),
     MakeMap([k \in {"env", "svc"} |-> IF k = "env" THEN "dev" ELSE "api"])}

\* logrus.Entry{}
ZeroEntry ==
    [Level |-> PanicLevel, Message |-> "", Data |-> NilMap,
     Context |-> NilContext, Caller |-> NilCaller]

NoResult == [outcome |-> "none", bytes |-> NilBytes, err |-> NilError]

-----------------------------------------------------------------------------
(* The formatter and its caller. *)

VARIABLES
    labels,       \* Formatter.Labels
    entry,        \* the entry last passed to Format, as the call left it
    dataBefore,   \* that entry's Data as it was when the call began
    labelsBefore, \* Formatter.Labels as it was when the call began
    result,       \* what that call returned: outcome, bytes, err
    returned,     \* the outputs the caller has kept, oldest first, each with
                  \* the labels the formatter had at its call
    pc,           \* concurrent calls: where each goroutine is in Format
    heap,         \* concurrent calls: the field maps, by address
    heapBefore,   \* concurrent calls: the field maps before any call began
    procEntry,    \* concurrent calls: each goroutine's entry; Data is an address
    procNew,      \* concurrent calls: each goroutine's newEntry
    procOut,      \* concurrent calls: what each goroutine's call returned
    rtIn,         \* round trip: the logEntry marshalled
    rtOut         \* round trip: the error and the logEntry unmarshalled

callVars == <<entry, dataBefore, labelsBefore, result>>
concVars == <<pc, heap, heapBefore, procEntry, procNew, procOut>>
rtVars == <<rtIn, rtOut>>
vars == <<labels, callVars, returned, concVars, rtVars>>

Procs == 1..NumProcs

NoRoundTrip == [done |-> FALSE, err |-> NilError, entry |-> ZeroLogEntry]

\* No goroutine, no round trip.
InitRest ==
    /\ pc = [p \in Procs |-> "done"]
    /\ heap = [a \in Procs |-> EmptyMap]
    /\ heapBefore = heap
    /\ procEntry = [p \in Procs |-> [ZeroEntry EXCEPT !.Data = p]]
    /\ procNew = [p \in Procs |-> ZeroLogEntry]
    /\ procOut = [p \in Procs |-> NoResult]
    /\ rtIn = ZeroLogEntry
    /\ rtOut = NoRoundTrip

InitCall ==
    /\ entry = ZeroEntry
    /\ dataBefore = NilMap
    /\ labelsBefore = EmptyMap
    /\ result = NoResult
    /\ returned = <<>>

\* New()
Init ==
    /\ labels = EmptyMap
    /\ InitCall
    /\ InitRest

\* The caller sets Formatter.Labels.
AssignLabels(m) ==
    /\ labels' = m
    /\ UNCHANGED <<callVars, returned, concVars, rtVars>>

\* formatter.Format(e)
FormatCall(e) ==
    LET r == Format(labels, e)
    IN  /\ entry' = [e EXCEPT !.Data = r.data]
        /\ dataBefore' = e.Data
        /\ labelsBefore' = labels
        /\ result' = [outcome |-> r.outcome, bytes |-> r.bytes, err |-> r.err]
        /\ UNCHANGED <<labels, concVars, rtVars>>

\* The caller passes e to Format.
Call(e) ==
    /\ FormatCall(e)
    /\ UNCHANGED returned

Next ==
    \/ \E m \in LabelMaps : AssignLabels(m)
    \/ \E e \in Events : Call(e)

Spec == Init /\ [][Next]_vars

-----------------------------------------------------------------------------
(* A caller that changes the labels between calls and keeps the outputs. *)

LabelKeys == {"env", "svc"}
LabelValues == {"prod", "dev"}

\* The entries of the calls whose outputs are kept.
KeptEvents ==
    {[Level |-> InfoLevel, Message |-> "test", Data |-> EmptyMap,
      Context |-> NilContext, Caller |-> NilCaller],
     [Level |-> ErrorLevel, Message |-> "test",
      Data |-> MakeMap([k \in {"prop"} |-> GoString("value")]),
      Context |-> NilContext, Caller |-> Frame("main.foo", "main.go", 42)]}

\* formatter.Labels[k] = v, on a map that is not nil.
PutLabel(k, v) ==
    /\ ~labels.nil
    /\ labels' = MapSet(labels, k, v)
    /\ UNCHANGED <<callVars, returned, concVars, rtVars>>

\* delete(formatter.Labels, k)
DeleteLabel(k) ==
    /\ MapHas(labels, k)
    /\ labels' = MapDelete(labels, k)
    /\ UNCHANGED <<callVars, returned, concVars, rtVars>>

\* The caller passes e to Format and keeps what it returns.
CallAndKeep(e) ==
    /\ Len(returned) < MaxCalls
    /\ FormatCall(e)
    /\ returned' = Append(returned, [labels |-> labels, bytes |-> result'.bytes])

NextLabels ==
    \/ \E m \in {NilMap, EmptyMap} : AssignLabels(m)
    \/ \E k \in LabelKeys, v \in LabelValues : PutLabel(k, v)
    \/ \E k \in LabelKeys : DeleteLabel(k)
    \/ \E e \in KeptEvents : CallAndKeep(e)

SpecLabels == Init /\ [][NextLabels]_vars

-----------------------------------------------------------------------------
(* Goroutines calling Format on one formatter at the same time. No one      *)
(* changes the labels. Each goroutine passes its own entry; the Data of two *)
(* entries may be the same map. Format takes no lock, so its steps          *)
(* interleave freely.                                                       *)

ConcEvents ==
    [Level : {InfoLevel, ErrorLevel}, Message : {"a", "b"}, Data : Procs,
     Context : {NilContext}, Caller : Callers]

ConcMaps == {NilMap, MakeMap([k \in {"prop"} |-> GoString("value")])}

InitConc ==
    /\ labels = MakeMap([k \in {"env"} |-> "prod"])
    /\ InitCall
    /\ rtIn = ZeroLogEntry
    /\ rtOut = NoRoundTrip
    /\ pc = [p \in Procs |-> "start"]
    /\ heap \in [Procs -> ConcMaps]
    /\ heapBefore = heap
    /\ procEntry \in [Procs -> ConcEvents]
    /\ procNew = [p \in Procs |-> ZeroLogEntry]
    /\ procOut = [p \in Procs |-> NoResult]

\* The map entry.Data of goroutine p refers to.
DataOf(p) == heap[procEntry[p].Data]

\* Line 97's condition for goroutine p.
InjectsException(p) ==
    MapSeverity(procEntry[p].Level) = SevError /\ ~procEntry[p].Caller.nil

\* The next step of p writes the map (lines 95, 98), reads it (line 100).
WritesNext(p) ==
    \/ pc[p] = "message" /\ ~DataOf(p).nil
    \/ pc[p] = "exception" /\ InjectsException(p)
ReadsNext(p) == pc[p] = "marshal"

\* Two goroutines are about to touch the same map, one of them writing it,
\* with nothing ordering the two accesses.
Race ==
    \E p, q \in Procs :
        /\ p # q
        /\ procEntry[p].Data = procEntry[q].Data
        /\ WritesNext(p)
        /\ WritesNext(q) \/ ReadsNext(q)

\* Lines 72-92.
Begin(p) ==
    /\ pc[p] = "start"
    /\ procNew' = [procNew EXCEPT ![p] = NewEntry(labels, procEntry[p])]
    /\ pc' = [pc EXCEPT ![p] = "message"]
    /\ UNCHANGED <<labels, callVars, returned, rtVars, heap, heapBefore,
                   procEntry, procOut>>

\* Lines 94-95: a write into the entry's own map, a panic when it is nil.
SetMessage(p) ==
    /\ pc[p] = "message"
    /\ IF DataOf(p).nil
       THEN /\ pc' = [pc EXCEPT ![p] = "done"]
            /\ procOut' = [procOut EXCEPT ![p] =
                    [outcome |-> "panic", bytes |-> NilBytes, err |-> NilError]]
            /\ UNCHANGED heap
       ELSE /\ heap' = [heap EXCEPT ![procEntry[p].Data] =
                    WithMessage(@, procEntry[p].Message)]
            /\ pc' = [pc EXCEPT ![p] = "exception"]
            /\ UNCHANGED procOut
    /\ UNCHANGED <<labels, callVars, returned, rtVars, heapBefore, procEntry,
                   procNew>>

\* Lines 97-99.
SetException(p) ==
    /\ pc[p] = "exception"
    /\ heap' = [heap EXCEPT ![procEntry[p].Data] =
            WithException(@, MapSeverity(procEntry[p].Level), procEntry[p].Caller)]
    /\ pc' = [pc EXCEPT ![p] = "marshal"]
    /\ UNCHANGED <<labels, callVars, returned, rtVars, heapBefore, procEntry,
                   procNew, procOut>>

\* Lines 100-104.
MarshalAndReturn(p) ==
    /\ pc[p] = "marshal"
    /\ LET m == Marshal([procNew[p] EXCEPT !.JSONPayload = DataOf(p)])
       IN  procOut' = [procOut EXCEPT ![p] =
               IF ~IsNilError(m.err)
               THEN [outcome |-> "error", bytes |-> NilBytes, err |-> m.err]
               ELSE [outcome |-> "ok", bytes |-> AppendBytes(m.contents, "\n"),
                     err |-> NilError]]
    /\ pc' = [pc EXCEPT ![p] = "done"]
    /\ UNCHANGED <<labels, callVars, returned, rtVars, heap, heapBefore,
                   procEntry, procNew>>

\* The Go runtime finds a map written while another goroutine uses it and
\* ends the program ("fatal error: concurrent map writes"). It need not find
\* it: the steps above stay enabled.
Crash ==
    /\ Race
    /\ pc' = [p \in Procs |-> "crashed"]
    /\ UNCHANGED <<labels, callVars, returned, rtVars, heap, heapBefore,
                   procEntry, procNew, procOut>>

NextConc ==
    \/ \E p \in Procs : Begin(p)
    \/ \E p \in Procs : SetMessage(p)
    \/ \E p \in Procs : SetException(p)
    \/ \E p \in Procs : MarshalAndReturn(p)
    \/ Crash

SpecConc == InitConc /\ [][NextConc]_vars

-----------------------------------------------------------------------------
(* The round trip of TestLogEntry: json.Marshal of a logEntry, then         *)
(* json.Unmarshal of the contents into a zero logEntry, row after row.      *)

RoundTripLabels ==
    {NilMap, EmptyMap,
     MakeMap([k \in {"label-1"} |-> "value-1"]),
     MakeMap([k \in {"label-1", "label-2"} |->
                IF k = "label-1" THEN "value-1" ELSE "value-2"])}

RoundTripPayloads ==
    {NilMap, EmptyMap,
     MakeMap([k \in {"message"} |-> GoString("test")]),
     MakeMap([k \in {"message", "n"} |->
                IF k = "n" THEN GoInt("1") ELSE GoString("test")]),
     MakeMap([k \in {"message", "n"} |->
                IF k = "n" THEN GoFloat64("1") ELSE GoString("test")])}

LogEntries ==
    [Severity : {"", "my-severity"}, Trace : {"", "my-trace"},
     SpanID : {"", "my-span"}, Labels : RoundTripLabels,
     JSONPayload : RoundTripPayloads]

InitRoundTrip ==
    /\ labels = EmptyMap
    /\ InitCall
    /\ pc = [p \in Procs |-> "done"]
    /\ heap = [a \in Procs |-> EmptyMap]
    /\ heapBefore = heap
    /\ procEntry = [p \in Procs |-> [ZeroEntry EXCEPT !.Data = p]]
    /\ procNew = [p \in Procs |-> ZeroLogEntry]
    /\ procOut = [p \in Procs |-> NoResult]
    /\ rtIn \in LogEntries
    /\ rtOut = NoRoundTrip

\* Lines 36-41 of the test: marshal the row, unmarshal the contents.
RoundTrip ==
    /\ ~rtOut.done
    /\ LET m == Marshal(rtIn)
       IN  rtOut' =
             IF ~IsNilError(m.err)
             THEN [done |-> TRUE, err |-> m.err, entry |-> ZeroLogEntry]
             ELSE [done |-> TRUE, err |-> NilError,
                   entry |-> Unmarshal(m.contents.json)]
    /\ UNCHANGED <<labels, callVars, returned, concVars, rtIn>>

\* The next row of the test.
NextRow(e) ==
    /\ rtOut.done
    /\ rtIn' = e
    /\ rtOut' = NoRoundTrip
    /\ UNCHANGED <<labels, callVars, returned, concVars>>

NextRoundTrip ==
    \/ RoundTrip
    \/ \E e \in LogEntries : NextRow(e)

SpecRoundTrip == InitRoundTrip /\ [][NextRoundTrip]_vars

-----------------------------------------------------------------------------
(* What the properties below read off a state. *)

Returned == result.outcome = "ok"
\* The JSON object of the last output.
OutDoc == result.bytes.json
OutPayload == OutDoc.jsonPayload.obj
\* The table of the documentation, written out.
TableSeverity(level) ==
    CASE level = 0 -> "Emergency"
      [] level = 1 -> "Alert"
      [] level = 2 -> "Error"
      [] level = 3 -> "Warning"
      [] level = 4 -> "Info"
      [] level = 5 -> "Debug"
      [] OTHER -> "Default"
\* The entry is logged at Error and carries caller info.
ErrorWithCaller == OutDoc.severity = "Error" /\ ~entry.Caller.nil
JSONString(s) == [kind |-> "string", text |-> s]
CallerText ==
    entry.Caller.Function \o "\n\t" \o entry.Caller.File \o ":"
        \o Itoa(entry.Caller.Line) \o "\n"

-----------------------------------------------------------------------------
C2_FormatLeavesInputUnchanged ==
    [][\A e \in Events :
        Call(e) => (entry'.Data = e.Data /\ labels' = labels)]_vars

\* C3 as stated: "exception" is a key of jsonPayload exactly when the severity
\* is "Error" and there is caller info, whatever the fields are.
C3_ExceptionOnlyFromCaller ==
    Returned =>
        /\ ("exception" \in DOMAIN OutPayload) <=> ErrorWithCaller
        /\ ErrorWithCaller => OutPayload["exception"] = JSONString(CallerText)

\* C3 amended: "exception" is a key of jsonPayload exactly when the severity
\* is "Error" with caller info, or the entry's fields had that key; in the
\* first case its value is the caller text, otherwise the field's own value.
C3_ExceptionKey ==
    Returned =>
        /\ ("exception" \in DOMAIN OutPayload)
              <=> (ErrorWithCaller \/ MapHas(dataBefore, "exception"))
        /\ ErrorWithCaller => OutPayload["exception"] = JSONString(CallerText)
        /\ (~ErrorWithCaller /\ MapHas(dataBefore, "exception"))
              => OutPayload["exception"] = EncodeValue(dataBefore.kv["exception"])

\* An Error entry with caller info whose fields already had "exception".
C3_Witness ==
    /\ Returned
    /\ entry.Level = ErrorLevel
    /\ ~entry.Caller.nil
    /\ MapHas(dataBefore, "exception")
    /\ OutPayload["exception"] = JSONString("main.foo\n\tmain.go:42\n")

\* The case of C4: no fields, no message, no labels, no trace context.
BareCall ==
    /\ Returned
    /\ MapLen(dataBefore) = 0
    /\ entry.Message = ""
    /\ MapLen(labelsBefore) = 0
    /\ ~entry.Context.hasSpan

\* C4 as stated: in that case the output is jsonPayload {"message": ""} and
\* nothing else.
C4_BareOutputOnlyPayload ==
    BareCall =>
        /\ OutDoc.keys = {KeyJSONPayload}
        /\ OutPayload = [k \in {"message"} |-> JSONString("")]

\* C4 amended: in that case the output is the severity of the table and
\* jsonPayload, which is {"message": ""} plus the caller text under
\* "exception" for an Error entry with caller info; trace, spanId and labels
\* are omitted.
C4_BareOutput ==
    BareCall =>
        /\ OutDoc.keys = {KeySeverity, KeyJSONPayload}
        /\ OutDoc.severity = TableSeverity(entry.Level)
        /\ ~OutDoc.jsonPayload.null
        /\ OutPayload =
              IF ErrorWithCaller
              THEN [k \in {"message", "exception"} |->
                      IF k = "message" THEN JSONString("")
                      ELSE JSONString(CallerText)]
              ELSE [k \in {"message"} |-> JSONString("")]

\* A bare Warn entry on the formatter New() returns.
C4_Witness ==
    /\ BareCall
    /\ entry.Level = WarnLevel
    /\ labelsBefore = EmptyMap
    /\ OutDoc.severity = "Warning"

C8_TwoOutcomes ==
    result.outcome # "none" =>
        \/ /\ result.outcome = "ok"
           /\ result.err.nil
           /\ ~result.bytes.nil
           /\ result.bytes.tail = <<"\n">>
           /\ ~Unsupported(entry.Data)
        \/ /\ result.outcome = "error"
           /\ result.bytes = NilBytes
           /\ result.err = UnsupportedTypeError
           /\ Unsupported(entry.Data)

\* The span context the entry's context carries is valid.
ValidSpanInContext ==
    /\ ~entry.Context.nil
    /\ entry.Context.hasSpan
    /\ entry.Context.sc.TraceID # ZeroID(TraceIDLen)
    /\ entry.Context.sc.SpanID # ZeroID(SpanIDLen)

\* C9: trace and spanId are both in the output, as the hex text of the ids,
\* when the entry's context carries a valid span context, and both absent
\* otherwise.
C9_TraceAndSpanTogether ==
    Returned =>
        /\ (KeyTrace \in OutDoc.keys) <=> ValidSpanInContext
        /\ (KeySpanID \in OutDoc.keys) <=> ValidSpanInContext
        /\ ValidSpanInContext =>
              /\ OutDoc.trace = EncodeToString(entry.Context.sc.TraceID)
              /\ OutDoc.spanId = EncodeToString(entry.Context.sc.SpanID)

\* An output with both ids.
C9_Witness ==
    /\ Returned
    /\ ValidSpanInContext
    /\ OutDoc.trace = "00000000000000000000000000000001"
    /\ OutDoc.spanId = "ab00000000000000"

-----------------------------------------------------------------------------
\* Output i of the caller's history has exactly the labels the formatter had
\* at its call, and no "labels" key when it had none.
OutputLabelsAsAtCall(i) ==
    LET doc == returned[i].bytes.json
        atCall == returned[i].labels
    IN  /\ ~returned[i].bytes.nil
        /\ (KeyLabels \in doc.keys) <=> (MapLen(atCall) # 0)
        /\ doc.labels = atCall.kv

\* C6: over any sequence of label changes and calls, every output has the
\* labels the formatter had at the moment of its call (none when it had
\* none), and an output once returned stays as it was returned.
C6_LabelsAsAtCall ==
    /\ [](\A i \in DOMAIN returned : OutputLabelsAsAtCall(i))
    /\ [][\A i \in DOMAIN returned :
            i \in DOMAIN returned' /\ returned'[i] = returned[i]]_vars

\* Two outputs kept, the first with labels, the second without, and the
\* formatter's labels changed again since.
C6_Witness ==
    /\ Len(returned) = 2
    /\ returned[1].bytes.json.labels = [k \in {"env"} |-> "prod"]
    /\ KeyLabels \notin returned[2].bytes.json.keys
    /\ labels = MakeMap([k \in {"env", "svc"} |-> "dev"])

-----------------------------------------------------------------------------
\* What goroutine p's call returns when no other call runs.
Alone(p) == Format(labels, [procEntry[p] EXCEPT !.Data = heapBefore[@]])

\* C7: calls of Format running at the same time on one formatter, whose
\* labels no one changes, never touch the same state with one of them
\* writing, and each returns what it returns when run alone.
C7_ConcurrentCallsSafe ==
    /\ ~Race
    /\ \A p \in Procs :
          /\ pc[p] # "crashed"
          /\ pc[p] = "done" =>
                /\ procOut[p].outcome = Alone(p).outcome
                /\ procOut[p].bytes = Alone(p).bytes
                /\ procOut[p].err = Alone(p).err

-----------------------------------------------------------------------------
\* Every field of the logEntry holds something.
Populated(e) ==
    /\ e.Severity # ""
    /\ e.Trace # ""
    /\ e.SpanID # ""
    /\ MapLen(e.Labels) > 0
    /\ MapLen(e.JSONPayload) > 0

\* The values of the payload have the types decoding into interface{} gives.
DecodedTypes(e) ==
    \A k \in MapKeys(e.JSONPayload) :
        e.JSONPayload.kv[k].type \in {"string", "float64"}

\* C10 as stated: the empty logEntry, and every logEntry with all five
\* fields populated, comes back equal from Marshal and Unmarshal.
C10_RoundTripEqual ==
    (rtOut.done /\ (rtIn = ZeroLogEntry \/ Populated(rtIn))) =>
        /\ IsNilError(rtOut.err)
        /\ rtOut.entry = rtIn

\* C10 amended: a logEntry comes back equal when its labels are nil or not
\* empty and its payload values have the types decoding gives (string,
\* float64); the empty logEntry and such populated ones are among them.
C10_RoundTripOfDecodedTypes ==
    (rtOut.done /\ (rtIn.Labels.nil \/ MapLen(rtIn.Labels) > 0)
                /\ DecodedTypes(rtIn)) =>
        /\ IsNilError(rtOut.err)
        /\ rtOut.entry = rtIn

\* A populated logEntry with a number in its payload has come back equal.
C10_Witness ==
    /\ rtOut.done
    /\ Populated(rtIn)
    /\ MapLen(rtIn.Labels) = 2
    /\ MapHas(rtIn.JSONPayload, "n")
    /\ rtOut.entry = rtIn

=============================================================================
